---- MODULE Spec2Model ----
(***************************************************************************)
(* A model of the circular-buffer FIFO of fifo.c (FifoInit, FifoPut,       *)
(* FifoGet) and of the callers that drive it (testFIFO and the scenarios   *)
(* of the specification).                                                  *)
(*                                                                         *)
(* pRd and pWr are modelled as element offsets from data (pRd - data,      *)
(* pWr - data); the offset NFIFOCAP is the one-past-the-end pointer.       *)
(***************************************************************************)
EXTENDS Integers, Sequences, FiniteSets, TLC

VARIABLES
    fifo,       \* the Fifo_t structure: data, pRd, pWr, fRd
    e,          \* the caller's output entry (the pItem target of FifoGet)
    op,         \* the last call made on the FIFO: "init", "put" or "get"
    ret,        \* the value that call returned
    tick,       \* clock() - tick0 as last read by the caller
    putLog,     \* history: the items of the successful FifoPut calls, in order
    getLog,     \* history: the items of the successful FifoGet calls, in order
    script,     \* the caller's program: the calls it makes, in order
    rets,       \* history: the return values of the script's calls so far
    thr         \* two concurrent callers: where each is inside its call

vars == <<fifo, e, op, ret, tick, putLog, getLog, script, rets, thr>>

----------------------------------------------------------------------------
(* Program constants *)

NFIFOCAP == 4
NITEMS == 6
NNAMESIZE == 20
UINT8 == 256

(* Bounds of the model *)

MaxTick == 2        \* the clock values the caller can read are 0..MaxTick
MaxPuts == 10       \* successful puts in the free-running specification
MaxItems == 6       \* the overfill test offers NFIFOCAP..MaxItems items
MaxRounds == 3      \* the pair test makes up to MaxRounds * NFIFOCAP pairs
MaxRacePuts == 2    \* puts stored by the lock-free producer

----------------------------------------------------------------------------
(* Entries *)

Truncate(s, n) == IF Len(s) > n THEN SubSeq(s, 1, n) ELSE s

\* snprintf(eName, NNAMESIZE-1, "( entry [%d] )", eIdx): at most NNAMESIZE-2
\* characters and the terminator.
eName(eIdx) == Truncate("( entry [" \o ToString(eIdx) \o "] )", NNAMESIZE - 2)

\* The item testFIFO builds for run index idx at clock value t.
MakeItem(idx, t) ==
    LET eIdx == (idx + 1) % UINT8
    IN  [ID |-> eIdx,
         Name |-> Truncate(eName(eIdx), NNAMESIZE),
         TimeStamp |-> t]

\* The local of FifoInit, which no slot receives.
defaultEntry == [ID |-> 0, Name |-> "DEFAULT", TimeStamp |-> 0]

\* What an entry that was never assigned can hold (a sample of the byte
\* patterns of stack memory).
Uninitialized ==
    {defaultEntry, [ID |-> UINT8 - 1, Name |-> "", TimeStamp |-> 0]}

\* A Fifo_t declared and not yet initialised: every field is indeterminate.
UninitFifo ==
    [data : [0 .. NFIFOCAP - 1 -> Uninitialized],
     pRd : {0, NFIFOCAP - 1},
     pWr : {0, 1},
     fRd : BOOLEAN]

----------------------------------------------------------------------------
(* The FIFO operations, as functions of the structure *)

\* FifoInit without the assignment of the last operation.
FifoInit_KeepFlag(pFifo) ==
    [fifo |-> [pFifo EXCEPT !.pRd = 0, !.pWr = 0],
     ret |-> TRUE]

FifoInit(pFifo) ==
    [fifo |-> [pFifo EXCEPT !.pRd = 0, !.pWr = 0, !.fRd = TRUE],
     ret |-> TRUE]

\* FifoPut with the wrap test written ">" instead of ">=".
FifoPut_NoWrap(pFifo, item) ==
    IF ~pFifo.fRd /\ pFifo.pWr = pFifo.pRd
    THEN [fifo |-> pFifo, ret |-> FALSE]
    ELSE LET pWr1 == pFifo.pWr + 1
         IN  [fifo |-> [pFifo EXCEPT
                           !.data = [@ EXCEPT ![pFifo.pWr] = item],
                           !.fRd = FALSE,
                           !.pWr = IF pWr1 > NFIFOCAP THEN 0 ELSE pWr1],
              ret |-> TRUE]

\* FifoPut without the update of the last operation.
FifoPut_KeepFlag(pFifo, item) ==
    IF ~pFifo.fRd /\ pFifo.pWr = pFifo.pRd
    THEN [fifo |-> pFifo, ret |-> FALSE]
    ELSE LET pWr1 == pFifo.pWr + 1
         IN  [fifo |-> [pFifo EXCEPT
                           !.data = [@ EXCEPT ![pFifo.pWr] = item],
                           !.pWr = IF pWr1 >= NFIFOCAP THEN 0 ELSE pWr1],
              ret |-> TRUE]

\* FifoPut whose full test ignores the last operation.
FifoPut_FullWhenEqual(pFifo, item) ==
    IF pFifo.pWr = pFifo.pRd
    THEN [fifo |-> pFifo, ret |-> FALSE]
    ELSE LET pWr1 == pFifo.pWr + 1
         IN  [fifo |-> [pFifo EXCEPT
                           !.data = [@ EXCEPT ![pFifo.pWr] = item],
                           !.fRd = FALSE,
                           !.pWr = IF pWr1 >= NFIFOCAP THEN 0 ELSE pWr1],
              ret |-> TRUE]

\* FifoPut that stores the item before it tests for full.
FifoPut_WriteFirst(pFifo, item) ==
    IF ~pFifo.fRd /\ pFifo.pWr = pFifo.pRd
    THEN [fifo |-> [pFifo EXCEPT !.data = [@ EXCEPT ![pFifo.pWr] = item]],
          ret |-> FALSE]
    ELSE LET pWr1 == pFifo.pWr + 1
         IN  [fifo |-> [pFifo EXCEPT
                           !.data = [@ EXCEPT ![pFifo.pWr] = item],
                           !.fRd = FALSE,
                           !.pWr = IF pWr1 >= NFIFOCAP THEN 0 ELSE pWr1],
              ret |-> TRUE]

\* FifoPut that accepts an item when the buffer is full, over the oldest one.
FifoPut_Overwrite(pFifo, item) ==
    LET pWr1 == pFifo.pWr + 1
    IN  [fifo |-> [pFifo EXCEPT
                      !.data = [@ EXCEPT ![pFifo.pWr] = item],
                      !.fRd = FALSE,
                      !.pWr = IF pWr1 >= NFIFOCAP THEN 0 ELSE pWr1],
         ret |-> TRUE]

\* FifoPut that copies the entry member by member and leaves out TimeStamp.
FifoPut_DropTimeStamp(pFifo, item) ==
    IF ~pFifo.fRd /\ pFifo.pWr = pFifo.pRd
    THEN [fifo |-> pFifo, ret |-> FALSE]
    ELSE LET pWr1 == pFifo.pWr + 1
         IN  [fifo |-> [pFifo EXCEPT
                           !.data = [@ EXCEPT ![pFifo.pWr] =
                                        [item EXCEPT !.TimeStamp =
                                            pFifo.data[pFifo.pWr].TimeStamp]],
                           !.fRd = FALSE,
                           !.pWr = IF pWr1 >= NFIFOCAP THEN 0 ELSE pWr1],
              ret |-> TRUE]

\* FifoPut that resets the write pointer one element early.
FifoPut_WrapEarly(pFifo, item) ==
    IF ~pFifo.fRd /\ pFifo.pWr = pFifo.pRd
    THEN [fifo |-> pFifo, ret |-> FALSE]
    ELSE LET pWr1 == pFifo.pWr + 1
         IN  [fifo |-> [pFifo EXCEPT
                           !.data = [@ EXCEPT ![pFifo.pWr] = item],
                           !.fRd = FALSE,
                           !.pWr = IF pWr1 >= NFIFOCAP - 1 THEN 0 ELSE pWr1],
              ret |-> TRUE]

FifoPut(pFifo, item) ==
    IF ~pFifo.fRd /\ pFifo.pWr = pFifo.pRd
    THEN [fifo |-> pFifo, ret |-> FALSE]
    ELSE LET pWr1 == pFifo.pWr + 1
         IN  [fifo |-> [pFifo EXCEPT
                           !.data = [@ EXCEPT ![pFifo.pWr] = item],
                           !.fRd = FALSE,
                           !.pWr = IF pWr1 >= NFIFOCAP THEN 0 ELSE pWr1],
              ret |-> TRUE]

\* FifoGet that advances the read pointer before it copies (*++pRd).
FifoGet_PreIncrement(pFifo, pItem) ==
    IF pFifo.fRd /\ pFifo.pWr = pFifo.pRd
    THEN [fifo |-> pFifo, item |-> pItem, ret |-> FALSE]
    ELSE LET pRd1 == pFifo.pRd + 1
             pRd2 == IF pRd1 >= NFIFOCAP THEN 0 ELSE pRd1
         IN  [fifo |-> [pFifo EXCEPT !.fRd = TRUE, !.pRd = pRd2],
              item |-> pFifo.data[pRd2],
              ret |-> TRUE]

\* FifoGet without the update of the last operation.
FifoGet_KeepFlag(pFifo, pItem) ==
    IF pFifo.fRd /\ pFifo.pWr = pFifo.pRd
    THEN [fifo |-> pFifo, item |-> pItem, ret |-> FALSE]
    ELSE LET pRd1 == pFifo.pRd + 1
         IN  [fifo |-> [pFifo EXCEPT
                           !.pRd = IF pRd1 >= NFIFOCAP THEN 0 ELSE pRd1],
              item |-> pFifo.data[pFifo.pRd],
              ret |-> TRUE]

\* FifoGet whose empty test ignores the last operation.
FifoGet_EmptyWhenEqual(pFifo, pItem) ==
    IF pFifo.pWr = pFifo.pRd
    THEN [fifo |-> pFifo, item |-> pItem, ret |-> FALSE]
    ELSE LET pRd1 == pFifo.pRd + 1
         IN  [fifo |-> [pFifo EXCEPT
                           !.fRd = TRUE,
                           !.pRd = IF pRd1 >= NFIFOCAP THEN 0 ELSE pRd1],
              item |-> pFifo.data[pFifo.pRd],
              ret |-> TRUE]

\* FifoGet that copies the slot out before it tests for empty.
FifoGet_CopyFirst(pFifo, pItem) ==
    IF pFifo.fRd /\ pFifo.pWr = pFifo.pRd
    THEN [fifo |-> pFifo, item |-> pFifo.data[pFifo.pRd], ret |-> FALSE]
    ELSE LET pRd1 == pFifo.pRd + 1
         IN  [fifo |-> [pFifo EXCEPT
                           !.fRd = TRUE,
                           !.pRd = IF pRd1 >= NFIFOCAP THEN 0 ELSE pRd1],
              item |-> pFifo.data[pFifo.pRd],
              ret |-> TRUE]

\* FifoGet that clears the slot it has read.
FifoGet_ClearSlot(pFifo, pItem) ==
    IF pFifo.fRd /\ pFifo.pWr = pFifo.pRd
    THEN [fifo |-> pFifo, item |-> pItem, ret |-> FALSE]
    ELSE LET pRd1 == pFifo.pRd + 1
         IN  [fifo |-> [pFifo EXCEPT
                           !.data = [@ EXCEPT ![pFifo.pRd] = defaultEntry],
                           !.fRd = TRUE,
                           !.pRd = IF pRd1 >= NFIFOCAP THEN 0 ELSE pRd1],
              item |-> pFifo.data[pFifo.pRd],
              ret |-> TRUE]

FifoGet(pFifo, pItem) ==
    IF pFifo.fRd /\ pFifo.pWr = pFifo.pRd
    THEN [fifo |-> pFifo, item |-> pItem, ret |-> FALSE]
    ELSE LET pRd1 == pFifo.pRd + 1
         IN  [fifo |-> [pFifo EXCEPT
                           !.fRd = TRUE,
                           !.pRd = IF pRd1 >= NFIFOCAP THEN 0 ELSE pRd1],
              item |-> pFifo.data[pFifo.pRd],
              ret |-> TRUE]

----------------------------------------------------------------------------
(* Calls *)

\* The caller reads the clock (which does not run backwards), builds the
\* item of index idx and calls FifoPut.
CallPut(idx) ==
    \E t \in tick .. MaxTick :
        LET r == FifoPut(fifo, MakeItem(idx, t))
        IN  /\ tick' = t
            /\ fifo' = r.fifo
            /\ op' = "put"
            /\ ret' = r.ret
            /\ putLog' = IF r.ret THEN Append(putLog, MakeItem(idx, t)) ELSE putLog
            /\ UNCHANGED <<e, getLog, thr>>

CallGet ==
    LET r == FifoGet(fifo, e)
    IN  /\ fifo' = r.fifo
        /\ e' = r.item
        /\ op' = "get"
        /\ ret' = r.ret
        /\ getLog' = IF r.ret THEN Append(getLog, r.item) ELSE getLog
        /\ UNCHANGED <<tick, putLog, thr>>

\* No call is in progress in either of the two concurrent callers.
Idle ==
    [ppc |-> "idle", item |-> defaultEntry, cpc |-> "idle",
     fullAt |-> NFIFOCAP, emptyAt |-> 0]

\* The state after "Fifo_t fifo; FifoInit(&fifo);" with the caller's program.
InitWith(scripts) ==
    /\ thr = Idle
    /\ \E f \in UninitFifo : fifo = FifoInit(f).fifo /\ ret = FifoInit(f).ret
    /\ e \in Uninitialized
    /\ op = "init"
    /\ tick = 0
    /\ putLog = <<>>
    /\ getLog = <<>>
    /\ script \in scripts
    /\ rets = <<>>

----------------------------------------------------------------------------
(* Spec: a caller that puts and gets in any order.  The items it offers   *)
(* are numbered by the puts accepted so far, so all stored items differ.  *)

Init == InitWith({<<>>})

Put ==
    /\ Len(putLog) < MaxPuts
    /\ CallPut(Len(putLog))
    /\ UNCHANGED <<script, rets>>

Get ==
    /\ CallGet
    /\ UNCHANGED <<script, rets>>

Next == Put \/ Get

Spec == Init /\ [][Next]_vars

----------------------------------------------------------------------------
(* Callers that follow a program: script is the sequence of their calls   *)
(* and rets collects what the calls returned.                             *)

StepPut ==
    /\ Len(rets) < Len(script)
    /\ script[Len(rets) + 1].op = "put"
    /\ CallPut(script[Len(rets) + 1].idx)
    /\ rets' = Append(rets, ret')
    /\ UNCHANGED script

StepGet ==
    /\ Len(rets) < Len(script)
    /\ script[Len(rets) + 1].op = "get"
    /\ CallGet
    /\ rets' = Append(rets, ret')
    /\ UNCHANGED script

NextScript == StepPut \/ StepGet

\* testFIFO with nItems for NITEMS: nItems puts of the items 1..nItems, then
\* nItems gets.
testFIFO(nItems) ==
    [k \in 1 .. 2 * nItems |->
        IF k <= nItems THEN [op |-> "put", idx |-> k - 1]
                       ELSE [op |-> "get", idx |-> k - nItems - 1]]

InitTest == InitWith({testFIFO(n) : n \in (NFIFOCAP .. MaxItems) \cup {NITEMS}})

SpecTest == InitTest /\ [][NextScript]_vars

\* The scenario of the specification: ids 1,2,3,4 are put, id 5 is offered,
\* one get, id 5 is offered again, then five gets.
Scenario ==
    <<[op |-> "put", idx |-> 0], [op |-> "put", idx |-> 1],
      [op |-> "put", idx |-> 2], [op |-> "put", idx |-> 3],
      [op |-> "put", idx |-> 4], [op |-> "get", idx |-> 0],
      [op |-> "put", idx |-> 4], [op |-> "get", idx |-> 1],
      [op |-> "get", idx |-> 2], [op |-> "get", idx |-> 3],
      [op |-> "get", idx |-> 4], [op |-> "get", idx |-> 5]>>

InitScenario == InitWith({Scenario})

SpecScenario == InitScenario /\ [][NextScript]_vars

\* n pairs: each put is followed at once by a get.
Pairs(n) ==
    [k \in 1 .. 2 * n |->
        IF k % 2 = 1 THEN [op |-> "put", idx |-> (k - 1) \div 2]
                     ELSE [op |-> "get", idx |-> (k - 1) \div 2]]

InitPairs == InitWith({Pairs(n) : n \in 1 .. MaxRounds * NFIFOCAP})

SpecPairs == InitPairs /\ [][NextScript]_vars

----------------------------------------------------------------------------
(* SpecReinit: a caller that may also call FifoInit again on the buffer   *)
(* it has used.  The histories start afresh with the buffer.              *)

Reinit ==
    LET r == FifoInit(fifo)
    IN  /\ fifo' = r.fifo
        /\ op' = "init"
        /\ ret' = r.ret
        /\ putLog' = <<>>
        /\ getLog' = <<>>
        /\ UNCHANGED <<e, tick, script, rets, thr>>

NextReinit == Put \/ Get \/ Reinit

SpecReinit == Init /\ [][NextReinit]_vars

----------------------------------------------------------------------------
(* SpecSpsc: one context only calls FifoPut, another only calls FifoGet,  *)
(* with no lock.  Each step is one statement of the function; thr.ppc and *)
(* thr.cpc name the line the producer and the consumer are about to run.  *)
(* thr.fullAt and thr.emptyAt record how many items were stored when the  *)
(* last "full" and the last "empty" were reported.                        *)

\* Line 261: the full test of FifoPut, on a new item.
P261 ==
    /\ thr.ppc = "idle"
    /\ Len(putLog) < MaxRacePuts
    /\ \E t \in tick .. MaxTick :
          /\ tick' = t
          /\ IF ~fifo.fRd /\ fifo.pWr = fifo.pRd
             THEN /\ thr' = [thr EXCEPT !.fullAt = Len(putLog) - Len(getLog)]
                  /\ op' = "put"
                  /\ ret' = FALSE
             ELSE /\ thr' = [thr EXCEPT !.ppc = "L263",
                                        !.item = MakeItem(Len(putLog), t)]
                  /\ UNCHANGED <<op, ret>>
    /\ UNCHANGED <<fifo, e, putLog, getLog, script, rets>>

\* Line 263: *pFifo->pWr++ = item.
P263 ==
    /\ thr.ppc = "L263"
    /\ fifo' = [fifo EXCEPT !.data = [@ EXCEPT ![fifo.pWr] = thr.item],
                            !.pWr = fifo.pWr + 1]
    /\ putLog' = Append(putLog, thr.item)
    /\ thr' = [thr EXCEPT !.ppc = "L264"]
    /\ UNCHANGED <<e, op, ret, tick, getLog, script, rets>>

\* Line 264: pFifo->fRd = false.
P264 ==
    /\ thr.ppc = "L264"
    /\ fifo' = [fifo EXCEPT !.fRd = FALSE]
    /\ thr' = [thr EXCEPT !.ppc = "L266"]
    /\ UNCHANGED <<e, op, ret, tick, putLog, getLog, script, rets>>

\* Lines 266-267: the wrap of pWr, and return true.
P266 ==
    /\ thr.ppc = "L266"
    /\ fifo' = [fifo EXCEPT !.pWr = IF fifo.pWr >= NFIFOCAP THEN 0 ELSE fifo.pWr]
    /\ thr' = [thr EXCEPT !.ppc = "idle"]
    /\ op' = "put"
    /\ ret' = TRUE
    /\ UNCHANGED <<e, tick, putLog, getLog, script, rets>>

\* Line 286: the empty test of FifoGet.
C286 ==
    /\ thr.cpc = "idle"
    /\ IF fifo.fRd /\ fifo.pWr = fifo.pRd
       THEN /\ thr' = [thr EXCEPT !.emptyAt = Len(putLog) - Len(getLog)]
            /\ op' = "get"
            /\ ret' = FALSE
       ELSE /\ thr' = [thr EXCEPT !.cpc = "L288"]
            /\ UNCHANGED <<op, ret>>
    /\ UNCHANGED <<fifo, e, tick, putLog, getLog, script, rets>>

\* Line 288: *pItem = *pFifo->pRd++.
C288 ==
    /\ thr.cpc = "L288"
    /\ e' = fifo.data[fifo.pRd]
    /\ fifo' = [fifo EXCEPT !.pRd = fifo.pRd + 1]
    /\ getLog' = Append(getLog, fifo.data[fifo.pRd])
    /\ thr' = [thr EXCEPT !.cpc = "L289"]
    /\ UNCHANGED <<op, ret, tick, putLog, script, rets>>

\* Line 289: pFifo->fRd = true.
C289 ==
    /\ thr.cpc = "L289"
    /\ fifo' = [fifo EXCEPT !.fRd = TRUE]
    /\ thr' = [thr EXCEPT !.cpc = "L291"]
    /\ UNCHANGED <<e, op, ret, tick, putLog, getLog, script, rets>>

\* Lines 291-292: the wrap of pRd, and return true.
C291 ==
    /\ thr.cpc = "L291"
    /\ fifo' = [fifo EXCEPT !.pRd = IF fifo.pRd >= NFIFOCAP THEN 0 ELSE fifo.pRd]
    /\ thr' = [thr EXCEPT !.cpc = "idle"]
    /\ op' = "get"
    /\ ret' = TRUE
    /\ UNCHANGED <<e, tick, putLog, getLog, script, rets>>

NextSpsc == P261 \/ P263 \/ P264 \/ P266 \/ C286 \/ C288 \/ C289 \/ C291

SpecSpsc == Init /\ [][NextSpsc]_vars

----------------------------------------------------------------------------
(* Derived notions used by the properties *)

\* Items enqueued and not yet dequeued.
Stored == Len(putLog) - Len(getLog)

\* The test FifoPut rejects on, and the test FifoGet rejects on.
IsFull(f) == ~f.fRd /\ f.pWr = f.pRd
IsEmpty(f) == f.fRd /\ f.pWr = f.pRd

\* Whether sequence s is an initial part of sequence t.
IsPrefix(s, t) == Len(s) <= Len(t) /\ \A k \in 1 .. Len(s) : s[k] = t[k]

\* The number of calls the script has made.
Done == Len(rets)

----------------------------------------------------------------------------
(* Properties *)

\* C1: strict FIFO order.  The k-th successful FifoGet returns the item of
\* the k-th successful FifoPut, for every k: the items got so far are the
\* first items put, in the same order, and the caller's entry holds the item
\* the last successful get appended.
C1_FifoOrder ==
    /\ IsPrefix(getLog, putLog)
    /\ (op = "get" /\ ret) => (getLog # <<>> /\ e = putLog[Len(getLog)])

\* More than two buffers' worth of distinct items have been put, and the
\* last get returned one of them, past a wrap-around, while others were
\* still stored.
C1_Witness ==
    /\ op = "get" /\ ret
    /\ Len(putLog) > 2 * NFIFOCAP
    /\ Len(getLog) > NFIFOCAP
    /\ Stored > 1

\* C2: occupancy.  The number of stored items is 0 when the pointers
\* coincide after a read, NFIFOCAP when they coincide after a write, and
\* (pWr - pRd + NFIFOCAP) mod NFIFOCAP when they differ.
C2_Occupancy ==
    IF fifo.pRd = fifo.pWr
    THEN IF fifo.fRd THEN Stored = 0 ELSE Stored = NFIFOCAP
    ELSE Stored = (fifo.pWr - fifo.pRd + NFIFOCAP) % NFIFOCAP

\* A full buffer whose pointers coincide away from the start, after both
\* have wrapped around.
C2_Witness ==
    /\ IsFull(fifo)
    /\ fifo.pRd = 1
    /\ Len(getLog) > NFIFOCAP

\* C3: a FifoPut call returns false exactly when, at the call, the last
\* operation was not a read and the pointers coincide; and then no slot has
\* been written.
C3_PutFailsIffFull ==
    [][op' = "put" =>
          /\ ret' = ~(~fifo.fRd /\ fifo.pRd = fifo.pWr)
          /\ (~ret' => fifo'.data = fifo.data)]_vars

\* A put was rejected on a buffer that had wrapped around.
C3_Witness ==
    /\ op = "put" /\ ~ret
    /\ Len(getLog) > 0
    /\ fifo.pWr # 0

\* C4: a FifoGet call returns false exactly when, at the call, the last
\* operation was a read and the pointers coincide.
C4_GetFailsIffEmpty ==
    [][op' = "get" => ret' = ~(fifo.fRd /\ fifo.pRd = fifo.pWr)]_vars

\* A get was rejected on a buffer that had been filled and drained.
C4_Witness ==
    /\ op = "get" /\ ~ret
    /\ Len(getLog) > NFIFOCAP
    /\ fifo.pRd # 0

\* C5: a call that returns false changes nothing: the structure (pointers,
\* last operation, every slot) is as before, and a failed FifoGet leaves the
\* caller's entry as it was.
C5_FailedCallNoEffect ==
    [][(op' \in {"put", "get"} /\ ~ret') => (fifo' = fifo /\ e' = e)]_vars

\* A get was rejected while the caller's entry and the slot under the read
\* pointer differ.
C5_Witness ==
    /\ op = "get" /\ ~ret
    /\ e # fifo.data[fifo.pRd]

\* C9: between calls both pointers address an element of data.
C9_CursorBounds ==
    /\ fifo.pRd \in 0 .. NFIFOCAP - 1
    /\ fifo.pWr \in 0 .. NFIFOCAP - 1

\* Both pointers have just come back to data[0] from the last element.
C9_Witness ==
    /\ Len(putLog) = 2 * NFIFOCAP
    /\ Len(getLog) = NFIFOCAP
    /\ fifo.pWr = 0 /\ fifo.pRd = 0

\* The structure once the items of sequence items (NFIFOCAP of them) were
\* put, in order, into a freshly initialised buffer.
FilledWith(items) ==
    [data |-> [i \in 0 .. NFIFOCAP - 1 |-> items[i + 1]],
     pRd |-> 0, pWr |-> 0, fRd |-> FALSE]

\* C6: after FifoInit, NFIFOCAP FifoPut calls in a row all succeed and the
\* buffer is then full; one more FifoPut returns false and the structure is
\* what it was before that call.
C6_FillThenFull ==
    LET more == Done > NFIFOCAP /\ script[NFIFOCAP + 1].op = "put"
    IN  /\ \A k \in 1 .. Done : k <= NFIFOCAP => rets[k]
        /\ Done = NFIFOCAP =>
              (IsFull(fifo) /\ Len(putLog) = NFIFOCAP /\ fifo = FilledWith(putLog))
        /\ more => ~rets[NFIFOCAP + 1]
        /\ (more /\ Done = NFIFOCAP + 1) =>
              (IsFull(fifo) /\ Len(putLog) = NFIFOCAP /\ fifo = FilledWith(putLog))

\* The put after the NFIFOCAP-th has just been rejected.
C6_Witness ==
    /\ Done = NFIFOCAP + 1
    /\ op = "put" /\ ~ret
    /\ fifo.data[NFIFOCAP - 1].ID = NFIFOCAP

\* C7: overfill, then drain.  Of M puts in a row on a fresh buffer
\* (M >= NFIFOCAP) the first NFIFOCAP succeed and the others fail; of the M
\* gets that follow the first NFIFOCAP succeed and return the accepted
\* items, which are the first NFIFOCAP offered, in the order they were put;
\* the other gets fail.
C7_OverfillThenDrain ==
    LET M == Len(script) \div 2
    IN  /\ \A k \in 1 .. Done :
              rets[k] = IF k <= M THEN k <= NFIFOCAP ELSE k - M <= NFIFOCAP
        /\ \A k \in 1 .. Len(putLog) : putLog[k].ID = k
        /\ Done >= M => Len(putLog) = NFIFOCAP
        /\ IsPrefix(getLog, putLog)
        /\ Done >= M + NFIFOCAP => (getLog = putLog /\ IsEmpty(fifo))

\* testFIFO as written (NITEMS items) has run to its end.
C7_Witness ==
    /\ Len(script) = 2 * NITEMS
    /\ Done = Len(script)
    /\ op = "get" /\ ~ret
    /\ tick > 0

ScenarioRets ==
    <<TRUE, TRUE, TRUE, TRUE, FALSE, TRUE, TRUE, TRUE, TRUE, TRUE, TRUE, FALSE>>

ScenarioIds == <<1, 2, 3, 4, 5>>

\* C8: the scenario with NFIFOCAP = 4.  Puts of ids 1,2,3,4 succeed, the put
\* of id 5 fails, a get returns id 1, the put of id 5 now succeeds, four gets
\* return ids 2,3,4,5 in that order and one more get fails.
C8_Scenario ==
    /\ IsPrefix(rets, ScenarioRets)
    /\ IsPrefix([k \in 1 .. Len(getLog) |-> getLog[k].ID], ScenarioIds)
    /\ (op = "get" /\ ret) => e.ID = ScenarioIds[Len(getLog)]
    /\ Done >= 6 => getLog # <<>>
    /\ Done = Len(script) => Len(getLog) = Len(ScenarioIds)

\* The scenario has run to its end.
C8_Witness ==
    /\ script = Scenario
    /\ Done = Len(script)
    /\ op = "get" /\ ~ret
    /\ e.ID = 5

\* C10: put/get pairs on a fresh buffer.  Every put succeeds, every get
\* succeeds and returns the item just put, and after each pair the buffer is
\* empty again, for any number of pairs up to MaxRounds * NFIFOCAP.
C10_PairsWrapAround ==
    /\ \A k \in 1 .. Done : rets[k]
    /\ Len(putLog) = (Done + 1) \div 2
    /\ (Done > 0 /\ Done % 2 = 0) =>
          /\ e = putLog[Len(putLog)]
          /\ e.ID = Done \div 2
          /\ getLog = putLog
          /\ IsEmpty(fifo)

\* 3 * NFIFOCAP pairs have run; the pointers went round three times.
C10_Witness ==
    /\ Len(script) = 2 * 3 * NFIFOCAP
    /\ Done = Len(script)
    /\ fifo.pRd = 0 /\ fifo.pWr = 0

\* C11: exact wrap-around.  After every successful put whose number is a
\* multiple of NFIFOCAP the write pointer is back at data[0], whatever gets
\* and failed puts came in between; likewise the read pointer after every
\* successful get whose number is a multiple of NFIFOCAP.  (Each pointer is
\* the number of successful calls modulo NFIFOCAP.)
C11_ExactWrap ==
    /\ fifo.pWr = Len(putLog) % NFIFOCAP
    /\ fifo.pRd = Len(getLog) % NFIFOCAP
    /\ Len(putLog) % NFIFOCAP = 0 => fifo.pWr = 0
    /\ Len(getLog) % NFIFOCAP = 0 => fifo.pRd = 0

\* The 2 * NFIFOCAP-th put has just succeeded with gets in between.
C11_Witness ==
    /\ op = "put" /\ ret
    /\ Len(putLog) = 2 * NFIFOCAP
    /\ Len(getLog) = NFIFOCAP + 1
    /\ fifo.pWr = 0

\* C12: round trip.  When a put has succeeded on an empty buffer and a get
\* follows at once, the get succeeds, returns an entry equal to the one put
\* in ID, TimeStamp and Name, and leaves the buffer empty.
C12_RoundTrip ==
    [][(op = "put" /\ ret /\ Stored = 1 /\ op' = "get") =>
          /\ ret'
          /\ e'.ID = putLog[Len(putLog)].ID
          /\ e'.TimeStamp = putLog[Len(putLog)].TimeStamp
          /\ e'.Name = putLog[Len(putLog)].Name
          /\ IsEmpty(fifo')]_vars

\* A get has emptied a buffer that had been drained before, away from
\* data[0], and returned an entry stamped after the clock had moved.
C12_Witness ==
    /\ op = "get" /\ ret
    /\ Stored = 0
    /\ Len(getLog) > NFIFOCAP
    /\ fifo.pRd = 1
    /\ e = putLog[Len(putLog)]
    /\ e.TimeStamp > 0

\* C14: a successful put stores the item in the slot under the old write
\* pointer, sets the last operation to "write", advances the write pointer
\* by one modulo NFIFOCAP and leaves the read pointer and the other slots
\* alone; the slots of the items not yet got still hold them.
C14_PutEffect ==
    [][(op' = "put" /\ ret') =>
          /\ fifo'.data = [fifo.data EXCEPT ![fifo.pWr] = putLog'[Len(putLog')]]
          /\ ~fifo'.fRd
          /\ fifo'.pWr = (fifo.pWr + 1) % NFIFOCAP
          /\ fifo'.pRd = fifo.pRd
          /\ \A j \in 0 .. Stored - 1 :
                /\ (fifo.pRd + j) % NFIFOCAP # fifo.pWr
                /\ fifo'.data[(fifo.pRd + j) % NFIFOCAP] = putLog[Len(getLog) + 1 + j]]_vars

\* A put has filled the buffer through the last element of the array.
C14_Witness ==
    /\ op = "put" /\ ret
    /\ Stored = NFIFOCAP
    /\ fifo.pWr = 0
    /\ Len(getLog) = NFIFOCAP

\* C15: a successful get returns the slot under the old read pointer, sets
\* the last operation to "read", advances the read pointer by one modulo
\* NFIFOCAP and leaves the write pointer and every slot alone.
C15_GetEffect ==
    [][(op' = "get" /\ ret') =>
          /\ e' = fifo.data[fifo.pRd]
          /\ fifo'.fRd
          /\ fifo'.pRd = (fifo.pRd + 1) % NFIFOCAP
          /\ fifo'.pWr = fifo.pWr
          /\ fifo'.data = fifo.data]_vars

\* A get has moved the read pointer from the last element back to data[0]
\* with items still stored.
C15_Witness ==
    /\ op = "get" /\ ret
    /\ Len(getLog) = NFIFOCAP
    /\ fifo.pRd = 0
    /\ Stored > 0

\* C13: FifoInit, on a structure in any state (never initialised, or used),
\* returns true and leaves it empty with both pointers at data[0] and the
\* last operation "read"; a get made right after it fails and a put made
\* right after it succeeds.
C13_InitEmpties ==
    /\ op = "init" =>
          (ret /\ fifo.pRd = 0 /\ fifo.pWr = 0 /\ fifo.fRd /\ IsEmpty(fifo))
    /\ [][(op' = "init" =>
             (ret' /\ fifo'.pRd = 0 /\ fifo'.pWr = 0 /\ fifo'.fRd
                   /\ IsEmpty(fifo')))
           /\ ((op = "init" /\ op' = "get") => ~ret')
           /\ ((op = "init" /\ op' = "put") => ret')]_vars

\* FifoInit has been called on a full buffer that had wrapped around.
C13_Witness ==
    /\ op = "init"
    /\ tick > 0
    /\ \A i \in 0 .. NFIFOCAP - 1 : fifo.data[i].ID > NFIFOCAP - 1 + i

\* The derived state of the buffer.
Class(f) ==
    IF f.pRd # f.pWr THEN "Partial" ELSE IF f.fRd THEN "Empty" ELSE "Full"

\* C16: the derived state machine.  A put takes Empty to Partial (to Full
\* when NFIFOCAP = 1) and Partial to Partial or Full, and fails in Full with
\* no change; a get takes Full to Partial (to Empty when NFIFOCAP = 1) and
\* Partial to Partial or Empty, and fails in Empty with no change.  In no
\* state do a put and a get both fail.
C16_StateMachine ==
    [][/\ (op' = "put" /\ Class(fifo) = "Empty") =>
              (ret' /\ Class(fifo') = IF NFIFOCAP = 1 THEN "Full" ELSE "Partial")
       /\ (op' = "put" /\ Class(fifo) = "Partial") =>
              (ret' /\ Class(fifo') \in {"Partial", "Full"})
       /\ (op' = "put" /\ Class(fifo) = "Full") =>
              (~ret' /\ fifo' = fifo)
       /\ (op' = "get" /\ Class(fifo) = "Full") =>
              (ret' /\ Class(fifo') = IF NFIFOCAP = 1 THEN "Empty" ELSE "Partial")
       /\ (op' = "get" /\ Class(fifo) = "Partial") =>
              (ret' /\ Class(fifo') \in {"Partial", "Empty"})
       /\ (op' = "get" /\ Class(fifo) = "Empty") =>
              (~ret' /\ fifo' = fifo)
       /\ FifoPut(fifo', defaultEntry).ret \/ FifoGet(fifo', e').ret]_vars

\* A get has taken the buffer from Partial to Empty past a wrap-around.
C16_Witness ==
    /\ op = "get" /\ ret
    /\ Class(fifo) = "Empty"
    /\ fifo.pRd = NFIFOCAP - 1
    /\ Len(getLog) > NFIFOCAP

RECURSIVE DrainAll(_, _)
\* The structure after gets are made until one fails (at most fuel gets).
DrainAll(f, fuel) ==
    IF fuel = 0 THEN f
    ELSE LET r == FifoGet(f, defaultEntry)
         IN  IF r.ret THEN DrainAll(r.fifo, fuel - 1) ELSE f

RECURSIVE FillCount(_, _)
\* The number of puts accepted when puts are made until one fails (at most
\* fuel puts).
FillCount(f, fuel) ==
    IF fuel = 0 THEN 0
    ELSE LET r == FifoPut(f, defaultEntry)
         IN  IF r.ret THEN 1 + FillCount(r.fifo, fuel - 1) ELSE 0

\* C17: no capacity leak, no terminal state.  From every reachable state,
\* getting until a get fails leaves the buffer empty, and putting from there
\* until a put fails accepts exactly NFIFOCAP items; and in every reachable
\* state a put or a get can succeed.
C17_NoCapacityLeak ==
    LET fuel == 2 * NFIFOCAP + 1
        drained == DrainAll(fifo, fuel)
    IN  /\ IsEmpty(drained)
        /\ FillCount(drained, fuel) = NFIFOCAP
        /\ FillCount(fifo, fuel) = NFIFOCAP - Stored
        /\ FifoPut(fifo, defaultEntry).ret \/ FifoGet(fifo, e).ret

\* A partly filled buffer whose stored items straddle the end of the array.
C17_Witness ==
    /\ Stored = 2
    /\ fifo.pRd = NFIFOCAP - 1
    /\ fifo.pWr = 1
    /\ Len(getLog) > NFIFOCAP

----------------------------------------------------------------------------
(* The index-based buffer of the specification *)

\* The buffer the structure stands for.
Abs(f) ==
    [slots |-> f.data, readIndex |-> f.pRd, writeIndex |-> f.pWr,
     lastOperationWasRead |-> f.fRd]

BufInit(b) ==
    [b EXCEPT !.readIndex = 0, !.writeIndex = 0, !.lastOperationWasRead = TRUE]

Enqueue(b, item) ==
    IF b.lastOperationWasRead = FALSE /\ b.readIndex = b.writeIndex
    THEN [buf |-> b, ok |-> FALSE]
    ELSE [buf |-> [b EXCEPT !.slots = [@ EXCEPT ![b.writeIndex] = item],
                            !.lastOperationWasRead = FALSE,
                            !.writeIndex = (b.writeIndex + 1) % NFIFOCAP],
          ok |-> TRUE]

Dequeue(b) ==
    IF b.lastOperationWasRead = TRUE /\ b.readIndex = b.writeIndex
    THEN [buf |-> b, ok |-> FALSE, item |-> defaultEntry]
    ELSE [buf |-> [b EXCEPT !.lastOperationWasRead = TRUE,
                            !.readIndex = (b.readIndex + 1) % NFIFOCAP],
          ok |-> TRUE,
          item |-> b.slots[b.readIndex]]

\* C19: the pointer-based structure refines the index-based buffer.  With
\* readIndex = pRd - data, writeIndex = pWr - data, lastOperationWasRead =
\* fRd and equal slots, every FifoInit, FifoPut and FifoGet call returns
\* what init, enqueue and dequeue return on the related buffer (success or
\* failure, and the item got), and the results are related again.
C19_Refinement ==
    /\ Abs(fifo) = BufInit(Abs(fifo))
    /\ [][/\ (op' = "init") => (ret' /\ Abs(fifo') = BufInit(Abs(fifo)))
          /\ (op' = "put") =>
                (LET item == IF ret' THEN putLog'[Len(putLog')] ELSE defaultEntry
                     r == Enqueue(Abs(fifo), item)
                 IN  r.ok = ret' /\ r.buf = Abs(fifo'))
          /\ (op' = "get") =>
                (LET r == Dequeue(Abs(fifo))
                 IN  /\ r.ok = ret'
                     /\ r.buf = Abs(fifo')
                     /\ (r.ok => (r.item = e')))]_vars

\* A put has wrapped the write pointer for the second time while the read
\* pointer is inside the array.
C19_Witness ==
    /\ op = "put" /\ ret
    /\ fifo.pWr = 0
    /\ fifo.pRd = 2
    /\ Len(putLog) = 2 * NFIFOCAP

\* C20: after FifoInit every slot of data holds the default entry (ID 0,
\* Name "DEFAULT"), the pointers are at data[0] and the last operation is
\* "read".
C20_InitStoresDefault ==
    op = "init" =>
        /\ \A i \in 0 .. NFIFOCAP - 1 :
              fifo.data[i].ID = defaultEntry.ID /\ fifo.data[i].Name = defaultEntry.Name
        /\ fifo.pRd = 0 /\ fifo.pWr = 0 /\ fifo.fRd

\* C18: with one context that only puts and one that only gets, and the
\* statements of the two calls interleaved without a lock, the items got are
\* the items put, in order, none lost and none twice; a put reports "full"
\* only with NFIFOCAP items stored and a get reports "empty" only with none.
C18_SpscSafe ==
    /\ IsPrefix(getLog, putLog)
    /\ thr.fullAt = NFIFOCAP
    /\ thr.emptyAt = 0

====
